---- MODULE Spec2Model ----
(***************************************************************************)
(* Model of the blogicum blog views (blogicum/blog/views.py and forms.py): *)
(* the Post and Comment tables, the wall clock, and one action per view.   *)
(* A view runs from its request to its response; both stay on record until *)
(* the response is sent.  Spec has the views that read posts, SpecList the *)
(* list views, SpecMutate the views that write, for every actor.           *)
(***************************************************************************)
EXTENDS Integers, Sequences, FiniteSets, TLC

\* Bounds of the model.
MaxPosts == 2
MaxComments == 1
MaxTime == 1

\* ---------------------------------------------------------------- domains

\* request.user: an authenticated User or django's AnonymousUser.
Users == {"alice", "bob"}
Anonymous == "AnonymousUser"
Actors == Users \cup {Anonymous}
\* usernames a profile URL can carry (one of them names no User)
Usernames == Users \cup {"nobody"}

\* Category rows by slug; a post's category may be null.
Categories == {"cpub", "chid"}
NoCategory == "null"
Slugs == Categories \cup {"noslug"}

Dates == 0..MaxTime
PostIds == 1..MaxPosts
\* primary keys a URL can carry: every key ever issued, and one never issued
UrlPostIds == 1..(MaxPosts + 1)
UrlCommentIds == 1..(MaxComments + 1)

Texts == {"t1", "t2"}

VARIABLES
    posts,                  \* Post table: pk -> row
    comments,               \* Comment table: pk -> row
    nextPostId,             \* autoincrement pk of Post
    nextCommentId,          \* autoincrement pk of Comment
    category_is_published,  \* Category.is_published by slug
    now,                    \* timezone.now()
    creator,                \* history: pk -> the user whose request created the post
    request,                \* the last request served
    response                \* the response to it

vars == <<posts, comments, nextPostId, nextCommentId, category_is_published,
          now, creator, request, response>>

db == <<posts, comments, nextPostId, nextCommentId, category_is_published, creator>>

\* ---------------------------------------------------------------- helpers

Request(view, user, post_id, comment_id, arg) ==
    [view |-> view, user |-> user, post_id |-> post_id,
     comment_id |-> comment_id, arg |-> arg]

Response(kind, post_id, list) ==
    [kind |-> kind, post_id |-> post_id, list |-> list]

Http404 == Response("NotFound", 0, <<>>)
RedirectLogin == Response("RedirectLogin", 0, <<>>)
RedirectDetail(post_id) == Response("RedirectDetail", post_id, <<>>)
RedirectProfile == Response("RedirectProfile", 0, <<>>)
RenderForm == Response("RenderForm", 0, <<>>)

is_authenticated(user) == user \in Users

\* Count("comments") over a Comment table: the comments whose post_comment
\* is the post
CountComments(table, post_id) ==
    Cardinality({c \in DOMAIN table : table[c].post_comment = post_id})

CommentCount(post_id) == CountComments(comments, post_id)

\* the sequences that hold every element of S once: the orders in which the
\* backing store can hand the rows of S to a query
Perms(S) ==
    {s \in [1..Cardinality(S) -> S] : \A i, j \in DOMAIN s : s[i] = s[j] => i = j}

\* the rows of a scan that pass a filter, in scan order
RECURSIVE FilterSeq(_, _)
FilterSeq(rows, keep) ==
    IF rows = <<>> THEN <<>>
    ELSE IF Head(rows) \in keep
         THEN <<Head(rows)>> \o FilterSeq(Tail(rows), keep)
         ELSE FilterSeq(Tail(rows), keep)

\* insert a row into a list sorted by -pub_date, after the rows of equal pub_date
RECURSIVE InsertDesc(_, _)
InsertDesc(sorted, id) ==
    IF sorted = <<>> THEN <<id>>
    ELSE IF posts[Head(sorted)].pub_date >= posts[id].pub_date
         THEN <<Head(sorted)>> \o InsertDesc(Tail(sorted), id)
         ELSE <<id>> \o sorted

\* the rows sorted by descending pub_date; rows of equal pub_date stay in
\* the order the scan yields them
RECURSIVE SortDesc(_)
SortDesc(rows) ==
    IF rows = <<>> THEN <<>>
    ELSE LET n == Len(rows)
         IN InsertDesc(SortDesc(SubSeq(rows, 1, n - 1)), rows[n])

\* the slip .order_by("pub_date"): oldest first
OrderByPubDateAsc(rows) ==
    LET sorted == SortDesc(rows)
    IN [i \in DOMAIN sorted |-> sorted[Len(sorted) + 1 - i]]

\* .order_by("-pub_date")
OrderByPubDateDesc(rows) ==
    SortDesc(rows)

\* .annotate(comment_count=Count("comments"))
Annotate(rows) ==
    [i \in 1..Len(rows) |-> [id |-> rows[i], comment_count |-> CommentCount(rows[i])]]

ListResponse(rows) == Response("List", 0, Annotate(rows))

\* ---------------------------------------------------------------- Init

Init ==
    /\ posts = <<>>
    /\ comments = <<>>
    /\ nextPostId = 1
    /\ nextCommentId = 1
    /\ category_is_published = [c \in Categories |-> c = "cpub"]
    /\ now = 0
    /\ creator = <<>>
    /\ request = [view |-> "none", user |-> Anonymous, post_id |-> 0,
                  comment_id |-> 0, arg |-> ""]
    /\ response = [kind |-> "none", post_id |-> 0, list |-> <<>>]

NoRequest == Request("none", Anonymous, 0, 0, "")
NoResponse == Response("none", 0, <<>>)

\* no request is being served: a view runs from the arrival of its request
\* to its response, one request at a time
Idle == request = NoRequest

\* the response is sent, and the next request can arrive
Respond ==
    /\ ~Idle
    /\ request' = NoRequest
    /\ response' = NoResponse
    /\ UNCHANGED <<db, now>>

\* the clock advances between requests
Tick ==
    /\ Idle
    /\ now < MaxTime
    /\ now' = now + 1
    /\ UNCHANGED <<db, request, response>>

\* ---------------------------------------------------------------- list views

\* get_general_posts_filter: the filter (no view calls it)
GeneralPostsFilter ==
    {id \in DOMAIN posts :
        /\ posts[id].is_published
        /\ posts[id].pub_date <= now
        /\ posts[id].category # NoCategory
        /\ category_is_published[posts[id].category]}

\* IndexListView.get_queryset: the filter
IndexFilter ==
    {id \in DOMAIN posts :
        /\ posts[id].pub_date < now
        /\ posts[id].is_published
        /\ posts[id].category # NoCategory
        /\ category_is_published[posts[id].category]}

\* IndexListView.get_queryset
IndexQueryset(scan) ==
    OrderByPubDateDesc(FilterSeq(scan, IndexFilter))

IndexListView(user, scan) ==
    /\ request' = Request("index", user, 0, 0, "")
    /\ response' = ListResponse(IndexQueryset(scan))
    /\ UNCHANGED <<db, now>>

\* the slip of building the profile listing on get_general_posts_filter()
ProfileFilterGeneral(user, username) ==
    {id \in GeneralPostsFilter : posts[id].author = username}

\* ProfileListView.get_queryset: .filter(author=self.author), whoever asks
ProfileFilter(user, username) ==
    {id \in DOMAIN posts : posts[id].author = username}

\* ProfileListView.get_queryset, once the User is found
ProfileQueryset(user, username, scan) ==
    OrderByPubDateDesc(FilterSeq(scan, ProfileFilter(user, username)))

ProfileListView(user, username, scan) ==
    /\ request' = Request("profile", user, 0, 0, username)
    /\ response' =
         IF username \notin Users
         THEN Http404
         ELSE ListResponse(ProfileQueryset(user, username, scan))
    /\ UNCHANGED <<db, now>>

\* CategoryListView.get_queryset: self.category.posts.filter(...)
CategoryFilter(slug) ==
    {id \in DOMAIN posts :
        /\ posts[id].category = slug
        /\ posts[id].pub_date < now
        /\ posts[id].is_published}

\* CategoryListView.get_queryset, once the Category is found
CategoryQueryset(slug, scan) ==
    OrderByPubDateDesc(FilterSeq(scan, CategoryFilter(slug)))

CategoryListView(user, slug, scan) ==
    /\ request' = Request("category", user, 0, 0, slug)
    /\ response' =
         IF slug \notin Categories \/ ~category_is_published[slug]
         THEN Http404
         ELSE ListResponse(CategoryQueryset(slug, scan))
    /\ UNCHANGED <<db, now>>

\* ---------------------------------------------------------------- post detail

\* PostDetailView.get_object
PostDetailGetObject(user, post_id) ==
    IF post_id \notin DOMAIN posts
    THEN Http404
    ELSE IF ~posts[post_id].is_published /\ posts[post_id].author # user
         THEN Http404
         ELSE Response("OK", post_id, <<>>)

PostDetailView(user, post_id) ==
    /\ request' = Request("post_detail", user, post_id, 0, "")
    /\ response' = PostDetailGetObject(user, post_id)
    /\ UNCHANGED <<db, now>>

\* ---------------------------------------------------------------- post forms

\* what a submitted post form carries: the model's fields, and an author
\* value a client may add to the POST data
PostData ==
    [author : Users, is_published : BOOLEAN, pub_date : Dates,
     category : Categories \cup {NoCategory}]

\* the slip of a PostForm that excludes no field
PostFormExcludeNothing == {}

\* PostForm.Meta.exclude
PostFormExclude == {"author"}

\* the fields a bound PostForm writes to its instance
PostFormCleaned(data) ==
    [f \in (DOMAIN data) \ PostFormExclude |-> data[f]]

\* ModelForm save: the form's fields overwrite the instance's, the rest stay
ApplyForm(instance, cleaned) ==
    [f \in DOMAIN instance |->
        IF f \in DOMAIN cleaned THEN cleaned[f] ELSE instance[f]]

BlankPost ==
    [author |-> Anonymous, is_published |-> TRUE, pub_date |-> 0,
     category |-> NoCategory]

\* PostCreateView (POST): LoginRequiredMixin, then form_valid
PostCreateView(user, data, valid) ==
    /\ request' = Request("post_create", user, 0, 0, data.author)
    /\ IF ~is_authenticated(user)
       THEN /\ response' = RedirectLogin
            /\ UNCHANGED <<db, now>>
       ELSE IF ~valid
       THEN /\ response' = RenderForm
            /\ UNCHANGED <<db, now>>
       ELSE /\ nextPostId <= MaxPosts
            /\ posts' = (nextPostId :>
                           [ApplyForm(BlankPost, PostFormCleaned(data))
                               EXCEPT !.author = user]) @@ posts
            /\ creator' = (nextPostId :> user) @@ creator
            /\ nextPostId' = nextPostId + 1
            /\ response' = RedirectProfile
            /\ UNCHANGED <<comments, nextCommentId, category_is_published, now>>

\* PostUpdateView.get_object and PostDeleteView.get_object (the same code)
PostEditGetObject(user, post_id) ==
    posts[post_id].is_published /\ posts[post_id].author = user

\* the slip of a PostUpdateView.dispatch without the author test
PostUpdateNeverDenied(user, post_id) ==
    FALSE

\* PostUpdateView.dispatch: the test that turns the request away
PostUpdateDenied(user, post_id) ==
    posts[post_id].author # user

\* PostDeleteView.dispatch: the test that turns the request away
PostDeleteDenied(user, post_id) ==
    posts[post_id].author # user

\* PostUpdateView (POST): dispatch, LoginRequiredMixin, get_object, form
PostUpdateView(user, post_id, data, valid) ==
    /\ request' = Request("post_update", user, post_id, 0, data.author)
    /\ IF post_id \notin DOMAIN posts
       THEN /\ response' = Http404
            /\ UNCHANGED <<db, now>>
       ELSE IF PostUpdateDenied(user, post_id)
       THEN /\ response' = RedirectDetail(post_id)
            /\ UNCHANGED <<db, now>>
       ELSE IF ~is_authenticated(user)
       THEN /\ response' = RedirectLogin
            /\ UNCHANGED <<db, now>>
       ELSE IF ~PostEditGetObject(user, post_id)
       THEN /\ response' = Http404
            /\ UNCHANGED <<db, now>>
       ELSE IF ~valid
       THEN /\ response' = RenderForm
            /\ UNCHANGED <<db, now>>
       ELSE /\ posts' = [posts EXCEPT
                           ![post_id] = ApplyForm(@, PostFormCleaned(data))]
            /\ response' = RedirectDetail(post_id)
            /\ UNCHANGED <<comments, nextPostId, nextCommentId,
                           category_is_published, creator, now>>

\* deleting a post deletes the comments that belong to it
CascadeComments(post_id) ==
    LET keep == {c \in DOMAIN comments : comments[c].post_comment # post_id}
    IN [c \in keep |-> comments[c]]

\* PostDeleteView (POST): dispatch, LoginRequiredMixin, get_object, delete
PostDeleteView(user, post_id) ==
    /\ request' = Request("post_delete", user, post_id, 0, "")
    /\ IF post_id \notin DOMAIN posts
       THEN /\ response' = Http404
            /\ UNCHANGED <<db, now>>
       ELSE IF PostDeleteDenied(user, post_id)
       THEN /\ response' = Http404
            /\ UNCHANGED <<db, now>>
       ELSE IF ~is_authenticated(user)
       THEN /\ response' = RedirectLogin
            /\ UNCHANGED <<db, now>>
       ELSE IF ~PostEditGetObject(user, post_id)
       THEN /\ response' = Http404
            /\ UNCHANGED <<db, now>>
       ELSE /\ posts' = [id \in (DOMAIN posts) \ {post_id} |-> posts[id]]
            /\ creator' = [id \in (DOMAIN creator) \ {post_id} |-> creator[id]]
            /\ comments' = CascadeComments(post_id)
            /\ response' = RedirectProfile
            /\ UNCHANGED <<nextPostId, nextCommentId, category_is_published, now>>

\* ---------------------------------------------------------------- comments

\* the slip of saving the comment without its post
NewCommentNoPost(user, post_id, text) ==
    [author |-> user, post_comment |-> 0, text |-> text]

\* the comment add_comment saves
NewComment(user, post_id, text) ==
    [author |-> user, post_comment |-> post_id, text |-> text]

\* add_comment: login_required, get_object_or_404, CommentForm
add_comment(user, post_id, text, valid) ==
    /\ request' = Request("add_comment", user, post_id, 0,
                           IF valid THEN "valid" ELSE "invalid")
    /\ IF ~is_authenticated(user)
       THEN /\ response' = RedirectLogin
            /\ UNCHANGED <<db, now>>
       ELSE IF post_id \notin DOMAIN posts
       THEN /\ response' = Http404
            /\ UNCHANGED <<db, now>>
       ELSE IF ~valid
       THEN /\ response' = RedirectDetail(post_id)
            /\ UNCHANGED <<db, now>>
       ELSE /\ nextCommentId <= MaxComments
            /\ comments' = (nextCommentId :> NewComment(user, post_id, text))
                              @@ comments
            /\ nextCommentId' = nextCommentId + 1
            /\ response' = RedirectDetail(post_id)
            /\ UNCHANGED <<posts, nextPostId, category_is_published, creator, now>>

\* CommentUpdateView.dispatch: the test that turns the request away
CommentUpdateDenied(user, comment_id) ==
    user # comments[comment_id].author

\* the slip of a CommentDeleteView.dispatch without the author test
CommentDeleteNeverDenied(user, comment_id) ==
    FALSE

\* CommentDeleteView.dispatch: the test that turns the request away
CommentDeleteDenied(user, comment_id) ==
    user # comments[comment_id].author

\* CommentUpdateView (POST): dispatch, LoginRequiredMixin, form
CommentUpdateView(user, post_id, comment_id, text, valid) ==
    /\ request' = Request("edit_comment", user, post_id, comment_id, "")
    /\ IF comment_id \notin DOMAIN comments
       THEN /\ response' = Http404
            /\ UNCHANGED <<db, now>>
       ELSE IF CommentUpdateDenied(user, comment_id)
       THEN /\ response' = RedirectDetail(post_id)
            /\ UNCHANGED <<db, now>>
       ELSE IF ~is_authenticated(user)
       THEN /\ response' = RedirectLogin
            /\ UNCHANGED <<db, now>>
       ELSE IF ~valid
       THEN /\ response' = RenderForm
            /\ UNCHANGED <<db, now>>
       ELSE /\ comments' = [comments EXCEPT ![comment_id].text = text]
            /\ response' = RedirectDetail(post_id)
            /\ UNCHANGED <<posts, nextPostId, nextCommentId,
                           category_is_published, creator, now>>

\* CommentDeleteView (POST): dispatch, LoginRequiredMixin, delete
CommentDeleteView(user, post_id, comment_id) ==
    /\ request' = Request("delete_comment", user, post_id, comment_id, "")
    /\ IF comment_id \notin DOMAIN comments
       THEN /\ response' = Http404
            /\ UNCHANGED <<db, now>>
       ELSE IF CommentDeleteDenied(user, comment_id)
       THEN /\ response' = Http404
            /\ UNCHANGED <<db, now>>
       ELSE IF ~is_authenticated(user)
       THEN /\ response' = RedirectLogin
            /\ UNCHANGED <<db, now>>
       ELSE /\ comments' = [c \in (DOMAIN comments) \ {comment_id} |-> comments[c]]
            /\ response' = RedirectDetail(post_id)
            /\ UNCHANGED <<posts, nextPostId, nextCommentId,
                           category_is_published, creator, now>>

\* ---------------------------------------------------------------- Next

\* the post forms submitted in Spec: every state a post can be given; the
\* author value added to the POST data is always the same one
ReadPostData == {d \in PostData : d.author = "bob"}

\* Posts in every state of publication, and the views that read them. Posts
\* are written by their authors here (SpecMutate has the other actors); a
\* list view is handed the rows that match its filter in any order.
Next ==
    \/ Tick
    \/ Respond
    \/ Idle /\ \E user \in Users, data \in ReadPostData :
                  PostCreateView(user, data, TRUE)
    \/ Idle /\ \E post_id \in DOMAIN posts, data \in ReadPostData :
                  PostUpdateView(posts[post_id].author, post_id, data, TRUE)
    \/ Idle /\ \E post_id \in DOMAIN posts :
                  PostDeleteView(posts[post_id].author, post_id)
    \/ Idle /\ \E user \in Actors, scan \in Perms(IndexFilter) :
                  IndexListView(user, scan)
    \/ Idle /\ \E user \in Actors, username \in Usernames :
                  \E scan \in Perms(ProfileFilter(user, username)) :
                     ProfileListView(user, username, scan)
    \/ Idle /\ \E user \in Actors, slug \in Slugs :
                  \E scan \in Perms(CategoryFilter(slug)) :
                     CategoryListView(user, slug, scan)
    \/ Idle /\ \E user \in Actors, post_id \in UrlPostIds :
                  PostDetailView(user, post_id)

Spec == Init /\ [][Next]_vars

\* the post forms submitted in SpecList: posts that have a category
ListPostData == {d \in ReadPostData : d.category # NoCategory}

\* The list views over posts written by their authors.
NextList ==
    \/ Tick
    \/ Respond
    \/ Idle /\ \E user \in Users, data \in ListPostData :
                  PostCreateView(user, data, TRUE)
    \/ Idle /\ \E post_id \in DOMAIN posts, data \in ListPostData :
                  PostUpdateView(posts[post_id].author, post_id, data, TRUE)
    \/ Idle /\ \E user \in Actors, scan \in Perms(IndexFilter) :
                  IndexListView(user, scan)
    \/ Idle /\ \E user \in Actors, username \in Usernames :
                  \E scan \in Perms(ProfileFilter(user, username)) :
                     ProfileListView(user, username, scan)
    \/ Idle /\ \E user \in Actors, slug \in Slugs :
                  \E scan \in Perms(CategoryFilter(slug)) :
                     CategoryListView(user, slug, scan)

SpecList == Init /\ [][NextList]_vars

\* the post forms submitted in SpecMutate: published or not, any author value
MutatePostData ==
    {d \in PostData : d.pub_date = 0 /\ d.category = NoCategory}

\* Every view that writes, requested by every actor for every key.
NextMutate ==
    \/ Respond
    \/ Idle /\ \E user \in Actors, data \in MutatePostData, valid \in BOOLEAN :
                  PostCreateView(user, data, valid)
    \/ Idle /\ \E user \in Actors, post_id \in UrlPostIds, data \in MutatePostData,
                  valid \in BOOLEAN :
                  PostUpdateView(user, post_id, data, valid)
    \/ Idle /\ \E user \in Actors, post_id \in UrlPostIds :
                  PostDeleteView(user, post_id)
    \/ Idle /\ \E user \in Actors, post_id \in UrlPostIds, text \in Texts,
                  valid \in BOOLEAN :
                  add_comment(user, post_id, text, valid)
    \/ Idle /\ \E user \in Actors, post_id \in UrlPostIds,
                  comment_id \in UrlCommentIds, text \in Texts, valid \in BOOLEAN :
                  CommentUpdateView(user, post_id, comment_id, text, valid)
    \/ Idle /\ \E user \in Actors, post_id \in UrlPostIds,
                  comment_id \in UrlCommentIds :
                  CommentDeleteView(user, post_id, comment_id)

SpecMutate == Init /\ [][NextMutate]_vars

\* ---------------------------------------------------------------- claims

\* The public-visibility predicate of the specification: published, not
\* future-dated, and in no category or in a published one.
PubliclyVisible(id) ==
    /\ posts[id].is_published
    /\ posts[id].pub_date <= now
    /\ (posts[id].category = NoCategory
        \/ category_is_published[posts[id].category])

\* the primary keys of a list response, as a set and in order
ListedIds == {response.list[i].id : i \in DOMAIN response.list}
ListedSeq == [i \in DOMAIN response.list |-> response.list[i].id]
PubDates(rows) == [i \in DOMAIN rows |-> posts[rows[i]].pub_date]

\* C1: the detail view returns the post iff the viewer is its author or the
\* post is publicly visible; every other request for a post is NotFound.
C1_DetailIffVisible ==
    request.view = "post_detail" =>
        IF request.post_id \in DOMAIN posts
           /\ (posts[request.post_id].author = request.user
               \/ PubliclyVisible(request.post_id))
        THEN response = Response("OK", request.post_id, <<>>)
        ELSE response = Http404

\* C2: an update or delete request whose actor is not the author of the
\* record it addresses changes no post and no comment; a post row changes or
\* goes only in an update or delete of that post by its author, and a comment
\* view changes or removes a comment only for its author.
RequestByAuthor(r) ==
    IF r.view \in {"post_update", "post_delete"}
    THEN r.post_id \in DOMAIN posts /\ posts[r.post_id].author = r.user
    ELSE r.comment_id \in DOMAIN comments
         /\ comments[r.comment_id].author = r.user

C3_AuthorNeverNotFound ==
    (/\ request.view \in {"post_update", "post_delete"}
     /\ request.post_id \in DOMAIN posts
     /\ posts[request.post_id].author = request.user)
    => response.kind # "NotFound"

\* C4: no listing holds a post that is not publicly visible unless the
\* viewer is the post's author.
C4_ListsHideFromNonAuthors ==
    response.kind = "List" =>
        \A id \in ListedIds :
            posts[id].author # request.user => PubliclyVisible(id)

\* C5: the index lists exactly the publicly visible posts.
C5_IndexExactlyPublic ==
    request.view = "index" =>
        ListedIds = {id \in DOMAIN posts : PubliclyVisible(id)}

\* C6: the profile listing asked for by the profile's owner holds every post
\* of that user, visible or not, and no post of anyone else.
C6_OwnerProfileUnfiltered ==
    (request.view = "profile" /\ request.user = request.arg) =>
        /\ response.kind = "List"
        /\ ListedIds = {id \in DOMAIN posts : posts[id].author = request.arg}
        /\ Len(response.list) = Cardinality(ListedIds)

\* the owner's listing holds an unpublished, future-dated post in an
\* unpublished category while another user's post exists and is left out
C6_Witness ==
    /\ request.view = "profile"
    /\ request.user = request.arg
    /\ \E id \in ListedIds :
          /\ ~posts[id].is_published
          /\ posts[id].pub_date > now
          /\ posts[id].category = "chid"
    /\ \E id \in DOMAIN posts : posts[id].author # request.arg

\* C7: every post's author is the authenticated user whose request created
\* it; an anonymous create request creates nothing.
C7_AuthorIsCreator ==
    /\ \A id \in DOMAIN posts :
          /\ creator[id] \in Users
          /\ posts[id].author = creator[id]
    /\ (request.view = "post_create" /\ request.user = Anonymous)
          => response = RedirectLogin

\* the author's update went through with another user's name in the
\* submitted author field
C7_Witness ==
    /\ request.view = "post_update"
    /\ response.kind = "RedirectDetail"
    /\ request.post_id \in DOMAIN posts
    /\ posts[request.post_id].author = request.user
    /\ request.arg \in Users
    /\ request.arg # request.user

\* C8: an edit of an existing post or comment by an actor who is not its
\* author is answered by a redirect to the post's detail view, a delete by
\* such an actor by NotFound, and either kind for a key with no record by
\* NotFound.
C8_DenialOutcomes ==
    [][LET r == request' IN
       /\ r.view \in {"post_update", "post_delete"} =>
            IF r.post_id \notin DOMAIN posts
            THEN response' = Http404
            ELSE posts[r.post_id].author # r.user =>
                   response' = IF r.view = "post_update"
                               THEN RedirectDetail(r.post_id)
                               ELSE Http404
       /\ r.view \in {"edit_comment", "delete_comment"} =>
            IF r.comment_id \notin DOMAIN comments
            THEN response' = Http404
            ELSE comments[r.comment_id].author # r.user =>
                   response' = IF r.view = "edit_comment"
                               THEN RedirectDetail(r.post_id)
                               ELSE Http404
      ]_vars

\* another user's edit of an existing post was answered by the redirect
C8_Witness ==
    /\ request.view = "post_update"
    /\ request.post_id \in DOMAIN posts
    /\ request.user \in Users
    /\ posts[request.post_id].author # request.user
    /\ response = RedirectDetail(request.post_id)

\* C9: add_comment saves a comment iff the actor is authenticated, the post
\* exists and the form is valid, whatever the post's visibility; the comment
\* has the actor as author and the addressed post as its post, whose comment
\* count rises by one; otherwise nothing is saved.
C9_AddComment ==
    [][request'.view = "add_comment" =>
         LET r == request'
             made == (DOMAIN comments') \ (DOMAIN comments)
         IN /\ posts' = posts
            /\ \A c \in DOMAIN comments :
                  c \in DOMAIN comments' /\ comments'[c] = comments[c]
            /\ IF /\ r.user \in Users
                  /\ r.post_id \in DOMAIN posts
                  /\ r.arg = "valid"
               THEN /\ Cardinality(made) = 1
                    /\ \A c \in made :
                          /\ comments'[c].author = r.user
                          /\ comments'[c].post_comment = r.post_id
                    /\ CountComments(comments', r.post_id)
                          = CommentCount(r.post_id) + 1
                    /\ \A id \in (DOMAIN posts) \ {r.post_id} :
                          CountComments(comments', id) = CommentCount(id)
               ELSE made = {}
      ]_vars

\* a user's comment on another user's unpublished post was saved
C9_Witness ==
    /\ request.view = "add_comment"
    /\ request.post_id \in DOMAIN posts
    /\ ~posts[request.post_id].is_published
    /\ posts[request.post_id].author # request.user
    /\ \E c \in DOMAIN comments :
          /\ comments[c].author = request.user
          /\ comments[c].post_comment = request.post_id
    /\ CommentCount(request.post_id) = 1

\* the rows the view of the request on record returns for a scan order
QuerysetOf(r, scan) ==
    IF r.view = "index" THEN IndexQueryset(scan)
    ELSE IF r.view = "profile" THEN ProfileQueryset(r.user, r.arg, scan)
    ELSE CategoryQueryset(r.arg, scan)

SortedDesc(rows) ==
    \A i, j \in DOMAIN rows :
        i < j => posts[rows[i]].pub_date >= posts[rows[j]].pub_date

\* C10 as stated: every listing is sorted by pub_date descending and is the
\* same sequence of posts whatever the order the rows are stored in.
C10_OrderIndependentOfStorage ==
    response.kind = "List" =>
        /\ SortedDesc(ListedSeq)
        /\ \A scan \in Perms(DOMAIN posts) :
              QuerysetOf(request, scan) = ListedSeq

\* C10 as amended: every listing is sorted by pub_date descending, and holds
\* the same posts and the same sequence of pub_dates whatever the order the
\* rows are stored in.
C10_SortedByPubDateDesc ==
    response.kind = "List" =>
        /\ SortedDesc(ListedSeq)
        /\ \A scan \in Perms(DOMAIN posts) :
              LET rows == QuerysetOf(request, scan)
              IN /\ {rows[i] : i \in DOMAIN rows} = ListedIds
                 /\ PubDates(rows) = PubDates(ListedSeq)

\* a listing of two posts that were stored oldest first
C10_Witness ==
    /\ response.kind = "List"
    /\ Len(response.list) = 2
    /\ posts[ListedSeq[1]].pub_date > posts[ListedSeq[2]].pub_date
    /\ ListedSeq[1] > ListedSeq[2]

====
